---- MODULE Spec2Model ----
(***************************************************************************)
(* The rosbridge session of App.js: the WebSocket held in the ref `ws`,    *)
(* the React state the handlers set, the frames handed to the socket's     *)
(* send(), and the transport events (open, message, error, close) that the *)
(* sockets deliver to the handlers installed by connectToRosbridge.        *)
(*                                                                         *)
(* Numbers are fixed point: velocities in tenths, battery fractions in     *)
(* 1/10000, positions in 1/1000, toFixed(n) results in 10^-n.              *)
(* The correlation id of an outbound frame (generateUniqueID: a timestamp  *)
(* and a random suffix) is kept as the key "id" only; its value is not     *)
(* modelled.                                                               *)
(***************************************************************************)
EXTENDS Integers, Sequences, FiniteSets, TLC

VARIABLES
    isConnected,       \* useState
    connectionStatus,  \* useState
    lastError,         \* useState
    batteryPercentage, \* useState
    odometry,          \* useState
    robotStatusText,   \* useState
    ws,                \* useRef: ws.current, a socket id or Null
    sockets,           \* every WebSocket object constructed so far, by id
    sent,              \* the frames the last handler run handed to send(), in
                       \* order, each with the socket it was sent on
    alert,             \* the dialog the last handler run raised with Alert.alert
    lastEvent          \* history: the handler that ran last, the socket it ran
                       \* for, (disconnect, onclose) whether the snapshot held
                       \* received values when it started, and
                       \* (handleEmergencyStop) whether it ran right after a
                       \* sendTwistCommand that sent its frame

vars == <<isConnected, connectionStatus, lastError,
          batteryPercentage, odometry, robotStatusText, ws, sockets, sent,
          alert, lastEvent>>

session == <<isConnected, connectionStatus, lastError, ws>>
telemetry == <<batteryPercentage, odometry, robotStatusText>>

-----------------------------------------------------------------------------
(* Bounds *)

MaxSockets == 2     \* sockets constructed in one run

-----------------------------------------------------------------------------
(* JavaScript values *)

Undefined == "<undefined>"
Null == 0

JsNull == [t |-> "null", n |-> 0, s |-> ""]
JsNum(k) == [t |-> "number", n |-> k, s |-> ""]
JsStr(str) == [t |-> "string", n |-> 0, s |-> str]
\* the string Number.prototype.toFixed returns, as its value in 10^-digits
JsFixed(k) == [t |-> "fixed", n |-> k, s |-> ""]

Abs(k) == IF k < 0 THEN -k ELSE k

\* v.toFixed(digits) of a value held with one more decimal digit than asked
\* for: rounded to the nearest, halves away from zero
toFixed(v) ==
    LET r == (Abs(v) + 5) \div 10
    IN  JsFixed(IF v < 0 THEN -r ELSE r)

\* WebSocket.readyState
CONNECTING == "CONNECTING"
OPEN == "OPEN"
CLOSING == "CLOSING"
CLOSED == "CLOSED"

-----------------------------------------------------------------------------
(* Configuration *)

JoystickLinear == 2     \* 0.2 m/s
JoystickAngular == 5    \* 0.5 rad/s
DefaultThrottleRate == 200

\* ROS_CONFIG: the keys `odometry` of topics and of messageTypes are commented
\* out in the source, so reading them yields undefined.
ROS_CONFIG ==
    [topics |-> [cmdVel |-> "/cmd_vel",
                 batteryStatus |-> "/battery_status",
                 odometry |-> Undefined,
                 robotStatus |-> "/robot_status_app"],
     messageTypes |-> [twist |-> "geometry_msgs/Twist",
                       batteryState |-> "sensor_msgs/BatteryState",
                       odometry |-> Undefined,
                       stringMsg |-> "std_msgs/String"],
     joystickSensitivity |-> [linear |-> JoystickLinear,
                              angular |-> JoystickAngular]]

ValidUrl == "ws://192.168.1.100:9090"
MalformedUrl == "192.168.1.100:9090"
Urls == {ValidUrl, MalformedUrl}

\* connectionStatus texts (interpolated parts left out)
StatusDisconnected == "Disconnected"
StatusAlready == "Already connected."
StatusConnecting == "Connecting to <url>..."
StatusConnected == "Connected to ROS Master via rosbridge"
StatusError == "Connection Error: <message>"
StatusClosed == "Disconnected (<code>)"
StatusFailed == "Failed to connect: <message>"

\* lastError texts
ErrWebSocket == "WebSocket Error: <message>"
ErrInit == "Connection Init Error: <message>"
ErrBridge == "ROS Bridge Error: <msg>"
ErrProcessing == "Error processing message from ROS."
ErrNotConnected == "Cannot send command: Not connected."
NoError == "<null>"

DefaultBattery == JsNull
DefaultOdometry == [x |-> JsNum(0), y |-> JsNum(0), theta |-> JsNum(0)]
DefaultStatusText == "N/A"

NoAlert == "<none>"

-----------------------------------------------------------------------------
(* Outbound frames *)

Vec3(a, b, c) == [x |-> a, y |-> b, z |-> c]
Twist(linearX, angularZ) ==
    [linear |-> Vec3(linearX, 0, 0), angular |-> Vec3(0, 0, angularZ)]
NoPayload == Twist(0, 0)

\* JSON.stringify of an object literal: a key whose value is undefined is
\* left out of the text
JSONstringify(obj) ==
    [obj EXCEPT !.keys = {k \in obj.keys :
                            /\ (k = "topic") => obj.topic # Undefined
                            /\ (k = "type") => obj.type # Undefined}]

subscribeMsg(topicName, messageType, throttleRate) ==
    [keys |-> {"op", "id", "topic", "type", "throttle_rate"},
     op |-> "subscribe", topic |-> topicName, type |-> messageType,
     throttle_rate |-> throttleRate, msg |-> NoPayload]

unsubscribeMsg(topicName) ==
    [keys |-> {"op", "id", "topic"},
     op |-> "unsubscribe", topic |-> topicName, type |-> Undefined,
     throttle_rate |-> 0, msg |-> NoPayload]

publishMsg(topicName, messageType, messagePayload) ==
    [keys |-> {"op", "id", "topic", "msg", "type"},
     op |-> "publish", topic |-> topicName, type |-> messageType,
     throttle_rate |-> 0, msg |-> messagePayload]

\* ws.current && ws.current.readyState === WebSocket.OPEN, with the sockets
\* in the states `socks`
wsIsOpen(socks) == ws # Null /\ socks[ws].readyState = OPEN

\* ws.current.send(data): the log after the call
send(log, data) == Append(log, [sock |-> ws, frame |-> data])

\* subscribeToTopic without its readyState check
subscribeToTopic_unguarded(log, socks, topicName, messageType) ==
    send(log, JSONstringify(subscribeMsg(topicName, messageType,
                                         DefaultThrottleRate)))

\* the log after subscribeToTopic(topicName, messageType), throttleRate = 200
subscribeToTopic(log, socks, topicName, messageType) ==
    IF wsIsOpen(socks)
    THEN send(log, JSONstringify(subscribeMsg(topicName, messageType,
                                              DefaultThrottleRate)))
    ELSE log

\* the log after unsubscribeFromTopic(topicName)
unsubscribeFromTopic(log, socks, topicName) ==
    IF wsIsOpen(socks)
    THEN send(log, JSONstringify(unsubscribeMsg(topicName)))
    ELSE log

\* the log after subscribeToTopics()
subscribeToTopics(log, socks) ==
    LET l1 == subscribeToTopic(log, socks, ROS_CONFIG.topics.batteryStatus,
                               ROS_CONFIG.messageTypes.batteryState)
        l2 == subscribeToTopic(l1, socks, ROS_CONFIG.topics.odometry,
                               ROS_CONFIG.messageTypes.odometry)
    IN  subscribeToTopic(l2, socks, ROS_CONFIG.topics.robotStatus,
                         ROS_CONFIG.messageTypes.stringMsg)

\* publishMessage without its else branch: a call with no open socket is
\* dropped and nothing is recorded
publishMessage_silent(topicName, messageType, messagePayload) ==
    IF wsIsOpen(sockets)
    THEN /\ sent' = send(<<>>, JSONstringify(publishMsg(topicName, messageType,
                                                         messagePayload)))
         /\ UNCHANGED lastError
    ELSE /\ UNCHANGED lastError
         /\ sent' = <<>>

\* publishMessage(topicName, messageType, messagePayload)
publishMessage(topicName, messageType, messagePayload) ==
    IF wsIsOpen(sockets)
    THEN /\ sent' = send(<<>>, JSONstringify(publishMsg(topicName, messageType,
                                                         messagePayload)))
         /\ UNCHANGED lastError
    ELSE /\ lastError' = ErrNotConnected
         /\ sent' = <<>>

-----------------------------------------------------------------------------
(* Inbound frames *)

NoNumber == [has |-> FALSE, v |-> 0]
Number(k) == [has |-> TRUE, v |-> k]

\* an orientation quaternion; a component may be missing
Quaternion(qx, qy, qz, qw) ==
    [has |-> TRUE, x |-> qx, y |-> qy, z |-> qz, w |-> qw]
NoQuaternion == [has |-> FALSE, x |-> NoNumber, y |-> NoNumber,
                 z |-> NoNumber, w |-> NoNumber]

Position(px, py) == [has |-> TRUE, x |-> px, y |-> py]
NoPosition == [has |-> FALSE, x |-> NoNumber, y |-> NoNumber]

\* msg.pose.pose; `depth` is how much of the path msg.pose.pose exists
Pose(pos, ori) == [depth |-> 2, position |-> pos, orientation |-> ori]
NoPose == [depth |-> 0, position |-> NoPosition, orientation |-> NoQuaternion]

\* the msg member of an inbound frame
Msg(pct, d, p) == [has |-> TRUE, percentage |-> pct, data |-> d, pose |-> p]
NoMsg == [has |-> FALSE, percentage |-> NoNumber, data |-> Undefined,
          pose |-> NoPose]
EmptyMsg == Msg(NoNumber, Undefined, NoPose)

\* a text frame: json is FALSE when JSON.parse throws on it
Frame(o, t, l, m) == [json |-> TRUE, op |-> o, topic |-> t, level |-> l, msg |-> m]
NotJson == [json |-> FALSE, op |-> Undefined, topic |-> Undefined,
            level |-> Undefined, msg |-> NoMsg]

WellFormedPose ==
    Pose(Position(Number(1234), Number(-2500)),
         Quaternion(Number(0), Number(0), Number(1), Number(0)))
PoseNoPosition ==
    Pose(NoPosition, Quaternion(Number(0), Number(0), Number(0), Number(1)))

OdomTopic == "/odom"

InboundFrames ==
    { NotJson,
      Frame("publish", "/battery_status", Undefined, Msg(Number(7550), Undefined, NoPose)),
      Frame("publish", "/battery_status", Undefined, EmptyMsg),
      Frame("publish", OdomTopic, Undefined, Msg(NoNumber, Undefined, WellFormedPose)),
      Frame("publish", OdomTopic, Undefined, EmptyMsg),
      Frame("publish", Undefined, Undefined, Msg(NoNumber, Undefined, WellFormedPose)),
      Frame("publish", Undefined, Undefined, Msg(NoNumber, Undefined, PoseNoPosition)),
      Frame("publish", "/robot_status_app", Undefined, Msg(NoNumber, "DOCKED", NoPose)),
      Frame("publish", "/robot_status_app", Undefined, NoMsg),
      Frame("status", Undefined, "error", NoMsg),
      Frame("status", Undefined, "info", NoMsg),
      Frame("service_response", Undefined, Undefined, NoMsg) }

\* Math.atan2(y, x) in 1/1000 rad, on the arguments the frames produce
atan2(sy, cx) ==
    CASE sy = 0 /\ cx > 0 -> 0
      [] sy = 0 /\ cx < 0 -> 3142
      [] sy > 0 /\ cx = 0 -> 1571
      [] sy < 0 /\ cx = 0 -> -1571
      [] sy = 0 /\ cx = 0 -> 0

\* quaternionToYaw(q), in 1/1000 rad
quaternionToYaw(q) ==
    IF ~q.has \/ ~q.w.has \/ ~q.x.has \/ ~q.y.has \/ ~q.z.has
    THEN 0
    ELSE LET siny_cosp == 2 * (q.w.v * q.z.v + q.x.v * q.y.v)
             cosy_cosp == 1 - 2 * (q.y.v * q.y.v + q.z.v * q.z.v)
         IN  atan2(siny_cosp, cosy_cosp)

-----------------------------------------------------------------------------
(* Sockets *)

\* new WebSocket(url): the object as constructed; closePending is set between
\* the error event of a failed connection and the close event that follows it
NewSocket == [readyState |-> CONNECTING, opened |-> FALSE, closePending |-> FALSE]

SocketIds == 1..Len(sockets)

\* socket.close(): starts the closing handshake unless already closing or closed
close(socks, s) ==
    IF socks[s].readyState \in {CLOSING, CLOSED}
    THEN socks
    ELSE [socks EXCEPT ![s].readyState = CLOSING]

\* new WebSocket(url) throws on a url that is not a ws: or wss: url
constructorThrows(url) == url # ValidUrl

Event(o, s, had) ==
    [op |-> o, sock |-> s, hadTelemetry |-> had, afterSend |-> FALSE]

\* the snapshot holds a value received from the robot
hasTelemetry ==
    <<batteryPercentage, odometry, robotStatusText>>
        # <<DefaultBattery, DefaultOdometry, DefaultStatusText>>

Init ==
    /\ isConnected = FALSE
    /\ connectionStatus = StatusDisconnected
    /\ lastError = NoError
    /\ batteryPercentage = DefaultBattery
    /\ odometry = DefaultOdometry
    /\ robotStatusText = DefaultStatusText
    /\ ws = Null
    /\ sockets = <<>>
    /\ sent = <<>>
    /\ alert = NoAlert
    /\ lastEvent = Event("init", Null, FALSE)

-----------------------------------------------------------------------------
(* Operations of the session *)

\* the guard of connectToRosbridge
alreadyConnected == ws # Null /\ sockets[ws].readyState = OPEN

\* connectToRosbridge with the text field holding rosbridgeUrl (the field is
\* editable whenever the Connect button is shown, so its value is an input)
connectToRosbridge(rosbridgeUrl) ==
    /\ lastEvent' = Event("connect", Null, FALSE)
    /\ sent' = <<>>
    /\ alert' = NoAlert
    /\ UNCHANGED <<isConnected, telemetry>>
    /\ IF alreadyConnected
       THEN /\ connectionStatus' = StatusAlready
            /\ UNCHANGED <<lastError, ws, sockets>>
       ELSE IF constructorThrows(rosbridgeUrl)
            THEN /\ connectionStatus' = StatusFailed
                 /\ lastError' = ErrInit
                 /\ UNCHANGED <<ws, sockets>>
            ELSE /\ Len(sockets) < MaxSockets
                 /\ connectionStatus' = StatusConnecting
                 /\ lastError' = NoError
                 /\ sockets' = Append(sockets, NewSocket)
                 /\ ws' = Len(sockets) + 1

\* disconnectFromRosbridge without its setOdometry call
disconnectFromRosbridge_keepsPose ==
    /\ sockets' = IF ws # Null THEN close(sockets, ws) ELSE sockets
    /\ isConnected' = FALSE
    /\ connectionStatus' = StatusDisconnected
    /\ batteryPercentage' = DefaultBattery
    /\ robotStatusText' = DefaultStatusText
    /\ lastEvent' = Event("disconnect", ws, hasTelemetry)
    /\ sent' = <<>>
    /\ alert' = NoAlert
    /\ UNCHANGED <<lastError, ws, odometry>>

disconnectFromRosbridge ==
    /\ sockets' = IF ws # Null THEN close(sockets, ws) ELSE sockets
    /\ isConnected' = FALSE
    /\ connectionStatus' = StatusDisconnected
    /\ batteryPercentage' = DefaultBattery
    /\ odometry' = DefaultOdometry
    /\ robotStatusText' = DefaultStatusText
    /\ lastEvent' = Event("disconnect", ws, hasTelemetry)
    /\ sent' = <<>>
    /\ alert' = NoAlert
    /\ UNCHANGED <<lastError, ws>>

\* a direct call of subscribeToTopic
subscribe(topicName, messageType) ==
    /\ sent' = subscribeToTopic(<<>>, sockets, topicName, messageType)
    /\ lastEvent' = Event("subscribe", ws, FALSE)
    /\ alert' = NoAlert
    /\ UNCHANGED <<session, telemetry, sockets>>

\* a direct call of unsubscribeFromTopic
unsubscribe(topicName) ==
    /\ sent' = unsubscribeFromTopic(<<>>, sockets, topicName)
    /\ lastEvent' = Event("unsubscribe", ws, FALSE)
    /\ alert' = NoAlert
    /\ UNCHANGED <<session, telemetry, sockets>>

sendTwistCommand(linearX, angularZ) ==
    /\ publishMessage(ROS_CONFIG.topics.cmdVel, ROS_CONFIG.messageTypes.twist,
                      Twist(linearX, angularZ))
    /\ lastEvent' = Event("sendTwistCommand", ws, FALSE)
    /\ alert' = NoAlert
    /\ UNCHANGED <<isConnected, connectionStatus, ws, telemetry,
                   sockets>>

\* handleEmergencyStop without its sendTwistCommand(0, 0) call
handleEmergencyStop_alertOnly ==
    /\ sent' = <<>>
    /\ alert' = "Emergency Stop: Robot motion stopped!"
    /\ lastEvent' = [Event("handleEmergencyStop", ws, FALSE) EXCEPT
                         !.afterSend = /\ lastEvent.op = "sendTwistCommand"
                                       /\ sent # <<>>]
    /\ UNCHANGED <<isConnected, connectionStatus, lastError, ws, telemetry,
                   sockets>>

handleEmergencyStop ==
    /\ publishMessage(ROS_CONFIG.topics.cmdVel, ROS_CONFIG.messageTypes.twist,
                      Twist(0, 0))
    /\ alert' = "Emergency Stop: Robot motion stopped!"
    /\ lastEvent' = [Event("handleEmergencyStop", ws, FALSE) EXCEPT
                         !.afterSend = /\ lastEvent.op = "sendTwistCommand"
                                       /\ sent # <<>>]
    /\ UNCHANGED <<isConnected, connectionStatus, ws, telemetry,
                   sockets>>

\* the velocities of the four teleoperation buttons
TeleopCommands ==
    { <<ROS_CONFIG.joystickSensitivity.linear, 0>>,
      <<0, ROS_CONFIG.joystickSensitivity.angular>>,
      <<0, -ROS_CONFIG.joystickSensitivity.angular>>,
      <<-ROS_CONFIG.joystickSensitivity.linear, 0>> }

-----------------------------------------------------------------------------
(* Transport events and the handlers connectToRosbridge installs *)

\* ws.current.onopen, on the open event of socket s
onopen(s) ==
    /\ sockets[s].readyState = CONNECTING
    /\ sockets' = [sockets EXCEPT ![s].readyState = OPEN, ![s].opened = TRUE]
    /\ isConnected' = TRUE
    /\ connectionStatus' = StatusConnected
    /\ sent' = subscribeToTopics(<<>>, sockets')
    /\ lastEvent' = Event("onopen", s, FALSE)
    /\ alert' = NoAlert
    /\ UNCHANGED <<lastError, ws, telemetry>>

\* what the try block of onmessage does with frame f: whether it throws, and
\* the values it sets otherwise
dispatch(f) ==
    LET same == [threw |-> FALSE, battery |-> batteryPercentage,
                 odom |-> odometry, status |-> robotStatusText,
                 error |-> lastError]
        throw == [same EXCEPT !.threw = TRUE]
        pose == f.msg.pose
    IN  IF ~f.json THEN throw
        ELSE IF f.op = "publish"
        THEN IF f.topic = ROS_CONFIG.topics.batteryStatus
             THEN IF ~f.msg.has THEN throw
                  ELSE [same EXCEPT !.battery =
                            IF f.msg.percentage.has
                            THEN toFixed(f.msg.percentage.v)
                            ELSE JsStr("N/A")]
             ELSE IF f.topic = ROS_CONFIG.topics.odometry
             THEN IF \/ ~f.msg.has
                     \/ pose.depth < 2
                     \/ ~pose.position.has
                     \/ ~pose.position.x.has
                     \/ ~pose.position.y.has
                  THEN throw
                  ELSE [same EXCEPT !.odom =
                            [x |-> toFixed(pose.position.x.v),
                             y |-> toFixed(pose.position.y.v),
                             theta |-> toFixed(quaternionToYaw(pose.orientation))]]
             ELSE IF f.topic = ROS_CONFIG.topics.robotStatus
             THEN IF ~f.msg.has THEN throw
                  ELSE [same EXCEPT !.status =
                            IF f.msg.data \in {Undefined, ""}
                            THEN "N/A" ELSE f.msg.data]
             ELSE same
        ELSE IF f.op = "status"
        THEN IF f.level = "error" \/ f.level = "warning"
             THEN [same EXCEPT !.error = ErrBridge]
             ELSE same
        ELSE same

\* onmessage with a catch block that also gives the connection up
onmessage_dropsConnection(s, f) ==
    /\ sockets[s].opened
    /\ sockets[s].readyState \in {OPEN, CLOSING}
    /\ LET r == dispatch(f)
       IN  IF r.threw
           THEN /\ lastError' = ErrProcessing
                /\ isConnected' = FALSE
                /\ UNCHANGED telemetry
           ELSE /\ batteryPercentage' = r.battery
                /\ odometry' = r.odom
                /\ robotStatusText' = r.status
                /\ lastError' = r.error
                /\ UNCHANGED isConnected
    /\ lastEvent' = Event("onmessage", s, FALSE)
    /\ sent' = <<>>
    /\ alert' = NoAlert
    /\ UNCHANGED <<connectionStatus, ws, sockets>>

\* ws.current.onmessage, on a text frame f received on socket s
onmessage(s, f) ==
    /\ sockets[s].opened
    /\ sockets[s].readyState \in {OPEN, CLOSING}
    /\ LET r == dispatch(f)
       IN  IF r.threw
           THEN /\ lastError' = ErrProcessing
                /\ UNCHANGED telemetry
           ELSE /\ batteryPercentage' = r.battery
                /\ odometry' = r.odom
                /\ robotStatusText' = r.status
                /\ lastError' = r.error
    /\ lastEvent' = Event("onmessage", s, FALSE)
    /\ sent' = <<>>
    /\ alert' = NoAlert
    /\ UNCHANGED <<isConnected, connectionStatus, ws, sockets>>

\* ws.current.onerror, on the error event of socket s (the connection failed:
\* the socket is closed and its close event is due)
onerror(s) ==
    /\ sockets[s].readyState # CLOSED
    /\ sockets' = [sockets EXCEPT ![s].readyState = CLOSED,
                                  ![s].closePending = TRUE]
    /\ isConnected' = FALSE
    /\ connectionStatus' = StatusError
    /\ lastError' = ErrWebSocket
    /\ lastEvent' = Event("onerror", s, FALSE)
    /\ sent' = <<>>
    /\ alert' = NoAlert
    /\ UNCHANGED <<ws, telemetry>>

\* onclose without the line that clears the ref
onclose_keepsRef(s) ==
    /\ \/ sockets[s].closePending
       \/ sockets[s].readyState = CLOSING
       \/ sockets[s].readyState = OPEN
    /\ sockets' = [sockets EXCEPT ![s].readyState = CLOSED,
                                  ![s].closePending = FALSE]
    /\ isConnected' = FALSE
    /\ connectionStatus' = StatusClosed
    /\ lastEvent' = Event("onclose", s, hasTelemetry)
    /\ sent' = <<>>
    /\ alert' = NoAlert
    /\ UNCHANGED <<lastError, ws, telemetry>>

\* ws.current.onclose, on the close event of socket s: after its error event,
\* at the end of the closing handshake, or when the peer closes
onclose(s) ==
    /\ \/ sockets[s].closePending
       \/ sockets[s].readyState = CLOSING
       \/ sockets[s].readyState = OPEN
    /\ sockets' = [sockets EXCEPT ![s].readyState = CLOSED,
                                  ![s].closePending = FALSE]
    /\ isConnected' = FALSE
    /\ connectionStatus' = StatusClosed
    /\ ws' = Null
    /\ lastEvent' = Event("onclose", s, hasTelemetry)
    /\ sent' = <<>>
    /\ alert' = NoAlert
    /\ UNCHANGED <<lastError, telemetry>>

-----------------------------------------------------------------------------
(* The session as an interface: every operation callable at any time *)

Connect == \E url \in Urls : connectToRosbridge(url)
Disconnect == disconnectFromRosbridge
Subscribe == subscribe("/scan", "sensor_msgs/LaserScan")
Unsubscribe == unsubscribe("/scan")
SendVelocity == \E c \in TeleopCommands : sendTwistCommand(c[1], c[2])
EmergencyStop == handleEmergencyStop
Open == \E s \in SocketIds : onopen(s)
Message == \E s \in SocketIds, f \in InboundFrames : onmessage(s, f)
Error == \E s \in SocketIds : onerror(s)
Close == \E s \in SocketIds : onclose(s)

Next ==
    \/ Connect
    \/ Disconnect
    \/ Subscribe
    \/ Unsubscribe
    \/ SendVelocity
    \/ EmergencyStop
    \/ Open
    \/ Message
    \/ Error
    \/ Close

Spec == Init /\ [][Next]_vars

-----------------------------------------------------------------------------
(* The application: an operation is callable only through the control that  *)
(* is rendered, and the close event of a failed connection follows its      *)
(* error event with nothing in between                                      *)

NoClosePending == \A s \in SocketIds : ~sockets[s].closePending

PressConnect == NoClosePending /\ ~isConnected /\ Connect
PressDisconnect == NoClosePending /\ isConnected /\ disconnectFromRosbridge
PressTeleop ==
    NoClosePending /\ isConnected
    /\ \E c \in TeleopCommands : sendTwistCommand(c[1], c[2])
PressStop == NoClosePending /\ isConnected /\ handleEmergencyStop
AppOpen == NoClosePending /\ Open
AppMessage == NoClosePending /\ Message
AppError == NoClosePending /\ Error
AppClose == \E s \in SocketIds : (NoClosePending \/ sockets[s].closePending) /\ onclose(s)

NextApp ==
    \/ PressConnect
    \/ PressDisconnect
    \/ PressTeleop
    \/ PressStop
    \/ AppOpen
    \/ AppMessage
    \/ AppError
    \/ AppClose

SpecApp == Init /\ [][NextApp]_vars

-----------------------------------------------------------------------------
(* Claims *)

\* a socket that is connecting or open
live(s) == sockets[s].readyState \in {CONNECTING, OPEN}
liveSockets == {s \in SocketIds : live(s)}

\* C1: connect() while a socket is open or still connecting is a no-op, so at
\* most one socket created by the session is live (connecting or open) at a
\* time, and connect() itself never sends a frame.
C1_AtMostOneLiveSocket ==
    /\ Cardinality(liveSockets) <= 1
    /\ lastEvent.op = "connect" => sent = <<>>

\* a socket whose connect attempt disconnect() cancelled: close() was called
\* on it before its open event
discarded(s) == sockets[s].readyState = CLOSING /\ ~sockets[s].opened

\* C2: an open or error event delivered for a socket that disconnect()
\* discarded while it was connecting changes neither isConnected nor
\* connectionStatus nor lastError, and sends no frame.
C2_LateEventsIgnored ==
    [][\A s \in SocketIds :
          (discarded(s) /\ lastEvent'.sock = s
                        /\ lastEvent'.op \in {"onopen", "onerror"})
          => /\ UNCHANGED <<isConnected, connectionStatus, lastError>>
             /\ sent' = <<>>]_vars

\* the subscribe frame of a fixed feed
subscribeFrame(topicName, messageType) ==
    [keys |-> {"op", "id", "topic", "type", "throttle_rate"},
     op |-> "subscribe", topic |-> topicName, type |-> messageType,
     throttle_rate |-> 200, msg |-> NoPayload]

\* C3: on the open event of a socket, exactly three subscribe frames are sent
\* on that socket: battery, odometry (/odom, nav_msgs/Odometry) and status.
C3_ThreeSubscribesOnOpen ==
    lastEvent.op = "onopen" =>
        sent = << [sock |-> lastEvent.sock,
                   frame |-> subscribeFrame("/battery_status",
                                            "sensor_msgs/BatteryState")],
                  [sock |-> lastEvent.sock,
                   frame |-> subscribeFrame("/odom", "nav_msgs/Odometry")],
                  [sock |-> lastEvent.sock,
                   frame |-> subscribeFrame("/robot_status_app",
                                            "std_msgs/String")] >>

\* C4: publish (sendVelocity, emergencyStop) with no open socket held never
\* calls send, changes neither the connection state nor the snapshot, and
\* leaves lastError at "Cannot send command: Not connected."; and whenever
\* the state shown is Disconnected, no open socket is held.
C4_PublishWhileNotConnected ==
    [][/\ (/\ lastEvent'.op \in {"sendTwistCommand", "handleEmergencyStop"}
           /\ ~wsIsOpen(sockets))
          => /\ sent' = <<>>
             /\ lastError' = "Cannot send command: Not connected."
             /\ UNCHANGED <<isConnected, connectionStatus, ws, sockets, telemetry>>
       /\ connectionStatus \in {StatusDisconnected, StatusClosed}
          => ~wsIsOpen(sockets)]_vars

C4_Witness ==
    /\ lastEvent.op = "sendTwistCommand"
    /\ connectionStatus = StatusDisconnected
    /\ ~wsIsOpen(sockets)
    /\ sent = <<>>
    /\ lastError = ErrNotConnected

\* C5: every transition of the connection state to Disconnected, by
\* disconnect() or by a close event, leaves the snapshot at its defaults.
C5_DisconnectedResetsSnapshot ==
    [][(/\ connectionStatus \notin {StatusDisconnected, StatusClosed}
        /\ connectionStatus' \in {StatusDisconnected, StatusClosed})
       => /\ batteryPercentage' = JsNull
          /\ odometry' = [x |-> JsNum(0), y |-> JsNum(0), theta |-> JsNum(0)]
          /\ robotStatusText' = "N/A"]_vars

\* C6: when disconnect() has returned the snapshot is battery null, pose
\* {x: 0, y: 0, theta: 0}, status "N/A", whatever it held before.
C6_DisconnectResetsSnapshot ==
    lastEvent.op = "disconnect" =>
        /\ batteryPercentage = JsNull
        /\ odometry = [x |-> JsNum(0), y |-> JsNum(0), theta |-> JsNum(0)]
        /\ robotStatusText = "N/A"

C6_Witness ==
    /\ lastEvent.op = "disconnect"
    /\ lastEvent.hadTelemetry
    /\ ~hasTelemetry

\* C7: when disconnect() has returned the session holds no socket reference
\* and the state is Disconnected.
C7_DisconnectClearsRef ==
    lastEvent.op = "disconnect" =>
        /\ ws = Null
        /\ ~isConnected
        /\ connectionStatus = StatusDisconnected

\* C8: an error event leaves the session not connected, in the Error state,
\* with the error recorded; a close event leaves it Disconnected with no
\* socket reference; and only connect() constructs a socket.
C8_ErrorThenClose ==
    [][/\ lastEvent'.op = "onerror"
          => /\ ~isConnected'
             /\ connectionStatus' = StatusError
             /\ lastError' = ErrWebSocket
       /\ lastEvent'.op = "onclose"
          => /\ ~isConnected'
             /\ connectionStatus' = StatusClosed
             /\ ws' = Null
       /\ lastEvent'.op # "connect"
          => /\ Len(sockets') = Len(sockets)
             /\ \A s \in SocketIds : sockets'[s].readyState = CONNECTING
                                        => sockets[s].readyState = CONNECTING]_vars

\* the only socket failed and its close event followed
C8_Witness ==
    /\ Len(sockets) = 1
    /\ lastEvent = Event("onclose", 1, FALSE)
    /\ lastError = ErrWebSocket
    /\ connectionStatus = StatusClosed
    /\ ws = Null

OdomWellFormed ==
    Frame("publish", "/odom", Undefined, Msg(NoNumber, Undefined, WellFormedPose))
OdomMissingFields == Frame("publish", "/odom", Undefined, EmptyMsg)

\* C9: while connected, a publish frame on /odom with a well-formed
\* msg.pose.pose overwrites the pose with its position and yaw; one with
\* missing nested fields leaves the pose and the connection as they are.
C9_OdomOverwritesPose ==
    [][\A s \in SocketIds :
          /\ (isConnected /\ onmessage(s, OdomWellFormed))
             => odometry' = [x |-> JsFixed(123), y |-> JsFixed(-250),
                             theta |-> JsFixed(314)]
          /\ (isConnected /\ onmessage(s, OdomMissingFields))
             => UNCHANGED <<odometry, isConnected, connectionStatus, ws, sockets>>]_vars

\* C10 as stated: a subscribe or unsubscribe call with no open socket held
\* sends nothing and is recorded in lastError the way publish is.
C10_SubscribeRecordsError ==
    (lastEvent.op \in {"subscribe", "unsubscribe"} /\ ~wsIsOpen(sockets))
        => sent = <<>> /\ lastError = ErrNotConnected

\* C10 amended: a subscribe or unsubscribe call with no open socket held
\* sends nothing and changes nothing: lastError, the connection state and the
\* snapshot stay as they were.
C10_SubscribeDroppedSilently ==
    [][(/\ lastEvent'.op \in {"subscribe", "unsubscribe"}
        /\ ~wsIsOpen(sockets))
       => /\ sent' = <<>>
          /\ UNCHANGED <<session, telemetry, sockets>>]_vars

C10_Witness ==
    /\ lastEvent.op = "unsubscribe"
    /\ ~wsIsOpen(sockets)
    /\ lastError = ErrWebSocket
    /\ sent = <<>>

BatteryFrame ==
    Frame("publish", "/battery_status", Undefined,
          Msg(Number(7550), Undefined, NoPose))

\* C11: handling an inbound frame (not JSON, a bridge status frame, a publish
\* frame on any topic) changes neither isConnected nor connectionStatus nor
\* the held socket nor any socket, and sends nothing; and a well-formed
\* battery frame that comes right after a frame that failed to parse is
\* decoded as usual.
C11_FramesKeepConnection ==
    [][/\ lastEvent'.op = "onmessage"
          => /\ UNCHANGED <<isConnected, connectionStatus, ws, sockets>>
             /\ sent' = <<>>
       /\ \A s \in SocketIds :
             (/\ lastEvent.op = "onmessage"
              /\ lastError = "Error processing message from ROS."
              /\ onmessage(s, BatteryFrame))
             => /\ batteryPercentage' = JsFixed(755)
                /\ lastError' = lastError]_vars

\* a frame failed to parse on the open, held socket and the session is still
\* connected
C11_Witness ==
    /\ lastEvent.op = "onmessage"
    /\ lastError = ErrProcessing
    /\ isConnected
    /\ connectionStatus = StatusConnected
    /\ wsIsOpen(sockets)
    /\ lastEvent.sock = ws

\* the publish frame of a velocity command
cmdVelFrame(linearX, angularZ) ==
    [keys |-> {"op", "id", "topic", "msg", "type"},
     op |-> "publish", topic |-> "/cmd_vel", type |-> "geometry_msgs/Twist",
     throttle_rate |-> 0,
     msg |-> [linear |-> [x |-> linearX, y |-> 0, z |-> 0],
              angular |-> [x |-> 0, y |-> 0, z |-> angularZ]]]

\* C12: while the held socket is open, sendVelocity(l, a) sends exactly one
\* publish frame to /cmd_vel carrying linear.x = l and angular.z = a, and an
\* emergencyStop() that follows it immediately sends exactly one more, on
\* the same socket, carrying linear.x = 0 and angular.z = 0.
C12_VelocityThenStop ==
    [][/\ \A c \in TeleopCommands :
             (wsIsOpen(sockets) /\ sendTwistCommand(c[1], c[2]))
             => sent' = <<[sock |-> ws, frame |-> cmdVelFrame(c[1], c[2])]>>
       /\ (/\ lastEvent.op = "sendTwistCommand"
           /\ sent # <<>>
           /\ lastEvent'.op = "handleEmergencyStop")
          => sent' = <<[sock |-> sent[1].sock, frame |-> cmdVelFrame(0, 0)]>>]_vars

\* emergencyStop() has run right after a sendVelocity that sent its frame
C12_Witness ==
    /\ lastEvent.op = "handleEmergencyStop"
    /\ lastEvent.afterSend
    /\ Len(sent) = 1
    /\ sent[1].frame.msg.linear.x = 0

\* a socket that disconnect() closed after it had opened, while the session
\* has since been given another socket by connect()
superseded(s) ==
    /\ sockets[s].readyState = CLOSING
    /\ sockets[s].opened
    /\ ws \notin {Null, s}

\* C13: after disconnect() and connect(), the old socket's close event
\* leaves the reference to the new socket and its connected flag as they
\* are, whether it arrives before or after the new socket's open event; and
\* when the new socket opens the session reports connected and sends the
\* three subscribe frames on it.
C13_OldCloseKeepsNewConnection ==
    [][\A s \in SocketIds :
          /\ (superseded(s) /\ lastEvent'.op = "onclose" /\ lastEvent'.sock = s)
             => /\ ws' = ws
                /\ isConnected' = isConnected
          /\ (superseded(s) /\ lastEvent'.op = "onopen" /\ lastEvent'.sock = ws)
             => /\ ws' = ws
                /\ isConnected'
                /\ Len(sent') = 3
                /\ \A i \in 1..Len(sent') : sent'[i].sock = ws]_vars

\* C14: whenever isConnected is true, a socket is held and it is open.
C14_ConnectedMeansOpenSocket ==
    isConnected => (ws # Null /\ sockets[ws].readyState = OPEN)

\* C15: the emergency-stop dialog is raised only by a run that handed the
\* zero-velocity frame to the socket.
C15_StopAlertOnlyIfSent ==
    alert # NoAlert =>
        /\ Len(sent) = 1
        /\ sent[1].frame = cmdVelFrame(0, 0)
====
